---- MODULE Spec2Model ----
(***************************************************************************)
(* The scoring service of solution-onnx-AML.ipynb (scoring_service.py,     *)
(* written by the %%writefile cell): init() loads the ONNX model into the  *)
(* module global `model`, run(raw_data) decodes a JSON body, executes the  *)
(* graph and returns result[0][0] or the text of the exception it caught.  *)
(*                                                                         *)
(* Python values are records with the same fields for every type, so that  *)
(* any two of them can be compared:                                        *)
(*   objects   [t, n, items]       t in float, numstr, str, None, list     *)
(*   results   [type, num, text]   type in float, str, none                *)
(* A float result num stands for the score num / ScoreScale.               *)
(*                                                                         *)
(* Of the notebook's own cells: the shuffle and split of the data set, the *)
(* packaging cell and the deployment cell, and the compliance rule with    *)
(* the label encoding the data set is described by.                        *)
(***************************************************************************)
EXTENDS Integers, Sequences, FiniteSets, TLC

\* ------------------------------------------------------------ constants

\* maxlen = 100: the padded sequence length, the graph's second input dimension.
maxlen == 100

\* max_words = 10000: the vocabulary size, the rows of the Embedding table.
max_words == 10000

\* Resolution of a score: num in 0..ScoreScale stands for num / ScoreScale.
ScoreScale == 8

\* Number of distinct trained graphs (weight sets) an artifact may hold.
NumGraphs == 2

\* Largest number of samples (rows) in one generated request body.
MaxSamples == 2

\* The number of callers whose calls of run() are in progress at a time.
NumCallers == 2

\* How far, in units of 1 / ScoreScale, the score of a fitted model may be
\* from the label it was fitted to.
FitTolerance == 1

\* The number of image versions a workspace comes to hold.
MaxImages == 4

\* The largest number of rows of a data set, and of samples asked for a part.
MaxRows == 3

\* The number of calls of init() made while calls of run() are in progress.
MaxInits == 2

\* The number of callers whose calls of run() are in progress beside init().
NumEarlyCallers == 1

\* ------------------------------------------------------------ JSON text

\* raw_data is a JSON text, modelled as its sequence of lexical tokens.
Tok(k, n) == [k |-> k, n |-> n]

LB == Tok("[", 0)

RB == Tok("]", 0)

COMMA == Tok(",", 0)

\* A number literal.
Num(n) == Tok("num", n)

\* A string literal whose text spells the number n, e.g. "12".
NumStr(n) == Tok("numstr", n)

\* A string literal whose text spells no number, e.g. "abc".
Str == Tok("str", 0)

\* The literal null.
Null == Tok("null", 0)

\* Text that is no JSON token.
Junk == Tok("junk", 0)

\* Python objects json.loads produces.
PyObj(t, n, items) == [t |-> t, n |-> n, items |-> items]

PyNone == PyObj("None", 0, <<>>)

\* An exception: its class and the text str(e) gives.
Exc(cls, msg) == [cls |-> cls, msg |-> msg]

NoExc == Exc("", "")

\* The classes that derive from Exception, which `except Exception` catches;
\* KeyboardInterrupt, SystemExit and GeneratorExit derive from BaseException only.
ExceptionClasses == {"JSONDecodeError", "ValueError", "TypeError", "NameError",
                     "IndexError", "InvalidArgument", "ModelNotFound", "InvalidProtobuf",
                     "NoSuchFile"}

\* The outcome of evaluating an expression: a value, or a raised exception.
Ok(v) == [ok |-> TRUE, exc |-> NoExc, value |-> v]

Raise(cls, msg, v) == [ok |-> FALSE, exc |-> Exc(cls, msg), value |-> v]

\* Statements in sequence: F applied to the value of r, or the exception r raised.
Then(r, F(_)) == IF r.ok THEN F(r.value) ELSE r

\* json.dumps(test_sample.tolist()) of one row: [e1, e2, ..., eL].
DumpRow(row) ==
    IF Len(row) = 0 THEN <<LB, RB>>
    ELSE [j \in 1..(2 * Len(row) + 1) |->
            IF j = 1 THEN LB
            ELSE IF j % 2 = 0 THEN row[j \div 2]
            ELSE IF j = 2 * Len(row) + 1 THEN RB
            ELSE COMMA]

RECURSIVE JoinRows(_, _)
\* The rows from position i on, each dumped and preceded by a comma after the first.
JoinRows(rows, i) ==
    IF i > Len(rows) THEN <<>>
    ELSE (IF i = 1 THEN <<>> ELSE <<COMMA>>) \o DumpRow(rows[i]) \o JoinRows(rows, i + 1)

\* json.dumps of a list of rows: [[...], [...]].
json_dumps(rows) == <<LB>> \o JoinRows(rows, 1) \o <<RB>>

JSONError == [ok |-> FALSE, value |-> PyNone, next |-> 0]

IsScalar(t) == t.k \in {"num", "numstr", "str", "null"}

\* The object a scalar token denotes.
ScalarValue(t) ==
    CASE t.k = "num" -> PyObj("float", t.n, <<>>)
      [] t.k = "numstr" -> PyObj("numstr", t.n, <<>>)
      [] t.k = "str" -> PyObj("str", 0, <<>>)
      [] OTHER -> PyNone

\* Whether token k breaks the run scalar , scalar , ... that starts at token i.
BreaksRun(toks, i, k) ==
    \/ k > Len(toks)
    \/ /\ (k - i) % 2 = 0
       /\ ~IsScalar(toks[k])
    \/ /\ (k - i) % 2 = 1
       /\ toks[k].k # ","

\* The first token from i on that breaks the run of scalars that starts at i.
RunEnd(toks, i) ==
    CHOOSE k \in i..(Len(toks) + 1) :
        BreaksRun(toks, i, k) /\ \A j \in i..(k - 1) : ~BreaksRun(toks, i, j)

\* The objects of the run of scalars in tokens i..e-1.
ScalarRun(toks, i, e) == [m \in 1..((e - i + 1) \div 2) |-> ScalarValue(toks[i + 2 * (m - 1)])]

Parsed(v, next) == [ok |-> TRUE, value |-> v, next |-> next]

RECURSIVE ParseValue(_, _)
RECURSIVE ParseElems(_, _, _)
\* The elements of an array after the element r, an array itself, was read:
\* a comma and more elements, or the closing bracket.
ElemsAfterArray(toks, read, r) ==
    IF ~r.ok \/ r.next > Len(toks) THEN JSONError
    ELSE IF toks[r.next].k = "," THEN ParseElems(toks, r.next + 1, Append(read, r.value))
    ELSE IF toks[r.next].k = "]" THEN Parsed(PyObj("list", 0, Append(read, r.value)), r.next + 1)
    ELSE JSONError

\* The elements of an array after the run of scalars read into `read` ended
\* at token e: after a scalar the closing bracket must follow, after a comma
\* an element that is an array.
ElemsAfterRun(toks, i, read, e) ==
    IF e > Len(toks) THEN JSONError
    ELSE IF (e - i) % 2 = 1
    THEN IF toks[e].k = "]" THEN Parsed(PyObj("list", 0, read), e + 1) ELSE JSONError
    ELSE IF toks[e].k # "[" THEN JSONError
    ELSE ElemsAfterArray(toks, read, ParseValue(toks, e))

\* The elements of an array, an element being expected at token i and acc
\* holding those already read: [ok, the list, next token].
ParseElemsRun(toks, i, acc, e) == ElemsAfterRun(toks, i, acc \o ScalarRun(toks, i, e), e)

ParseElems(toks, i, acc) == ParseElemsRun(toks, i, acc, RunEnd(toks, i))

\* The JSON value that starts at token i: [ok, value, next token].
ParseValue(toks, i) ==
    IF i > Len(toks) THEN JSONError
    ELSE IF IsScalar(toks[i]) THEN Parsed(ScalarValue(toks[i]), i + 1)
    ELSE IF toks[i].k # "[" THEN JSONError
    ELSE IF i + 1 <= Len(toks) /\ toks[i + 1].k = "]" THEN Parsed(PyObj("list", 0, <<>>), i + 2)
    ELSE ParseElems(toks, i + 1, <<>>)

\* The whole text must be one value.
WholeText(raw_data, r) ==
    IF r.ok /\ r.next = Len(raw_data) + 1 THEN Ok(r.value)
    ELSE Raise("JSONDecodeError", "Expecting value", PyNone)

\* json.loads(raw_data): the object, or JSONDecodeError (a ValueError) when the
\* text is no JSON value or is followed by extra data.
json_loads(raw_data) == WholeText(raw_data, ParseValue(raw_data, 1))

\* ------------------------------------------------------------ numpy

NdArray(shape, data) == [shape |-> shape, data |-> data]

NoArray == NdArray(<<>>, <<>>)

\* The shape of a list whose items have the shapes ss: that of the first item
\* under the number of items, when all items have the same shape.
ShapeOver(ss) ==
    IF Len(ss) = 0 THEN [ok |-> TRUE, shape |-> <<0>>]
    ELSE IF \A i \in 1..Len(ss) : ss[i].ok /\ ss[i].shape = ss[1].shape
    THEN [ok |-> TRUE, shape |-> <<Len(ss)>> \o ss[1].shape]
    ELSE [ok |-> FALSE, shape |-> <<>>]

RECURSIVE ShapeOf(_)
\* The shape np.array infers: [ok, shape]; not ok when the nesting is ragged.
ShapeOf(obj) ==
    IF obj.t # "list" THEN [ok |-> TRUE, shape |-> <<>>]
    ELSE ShapeOver([i \in 1..Len(obj.items) |-> ShapeOf(obj.items[i])])

RECURSIVE FlatRange(_, _, _)
\* The scalars of obj in row-major order.
Flat(obj) ==
    IF obj.t # "list" THEN <<obj>>
    ELSE IF \A i \in 1..Len(obj.items) : obj.items[i].t # "list" THEN obj.items
    ELSE FlatRange(obj.items, 1, Len(obj.items))

\* The scalars of items[lo..hi].
FlatRange(items, lo, hi) ==
    IF lo > hi THEN <<>>
    ELSE IF lo = hi THEN Flat(items[lo])
    ELSE FlatRange(items, lo, (lo + hi) \div 2) \o FlatRange(items, (lo + hi) \div 2 + 1, hi)

\* The array of shape s over the scalars of obj.
Shaped(obj, s) ==
    IF s.ok THEN Ok(NdArray(s.shape, Flat(obj)))
    ELSE Raise("ValueError", "setting an array element with a sequence.", NoArray)

\* np.array(obj): a ragged nesting has no rectangular shape; the float32 cast
\* of the resulting array of sequences is a ValueError.
np_array(obj) == Shaped(obj, ShapeOf(obj))

\* The nearest float32 to the integer n: exact up to 2^24, then every second
\* integer up to 2^25 (ties to even), then every fourth.
Float32(n) ==
    LET a == IF n < 0 THEN -n ELSE n
        step == IF a <= 16777216 THEN 1 ELSE IF a <= 33554432 THEN 2 ELSE 4
        lo == (a \div step) * step
        r == a - lo
        up == IF 2 * r > step THEN TRUE
              ELSE IF 2 * r < step THEN FALSE
              ELSE ((lo \div step) % 2) = 1
        m == IF up THEN lo + step ELSE lo
    IN IF n < 0 THEN -m ELSE m

\* .astype(np.float32): numbers and strings that spell a number are cast;
\* another string is a ValueError and None a TypeError.
astype_float32(arr) ==
    IF \E i \in 1..Len(arr.data) : arr.data[i].t = "str"
    THEN Raise("ValueError", "could not convert string to float", NoArray)
    ELSE IF \E i \in 1..Len(arr.data) : arr.data[i].t = "None"
    THEN Raise("TypeError", "float() argument must be a string or a number, not 'NoneType'", NoArray)
    ELSE Ok(NdArray(arr.shape, [i \in 1..Len(arr.data) |-> Float32(arr.data[i].n)]))

\* ------------------------------------------------------------ the graph

\* Embedding(max_words, embedding_dim, input_length=maxlen): the table row of
\* token tok under weight set g. The trained weights are data of the artifact;
\* each g in 1..NumGraphs stands for one set of them.
Embedding(g, tok) == ((g * tok + g) % 5) - 2

RECURSIVE SumRange(_, _, _)
\* Flatten and the weighted sum of a Dense unit: the sum of x[lo..hi].
SumRange(x, lo, hi) ==
    IF lo > hi THEN 0
    ELSE IF lo = hi THEN x[lo]
    ELSE SumRange(x, lo, (lo + hi) \div 2) + SumRange(x, (lo + hi) \div 2 + 1, hi)

\* activation='relu'
ReLU(z) == IF z > 0 THEN z ELSE 0

\* The last layer without its activation.
SigmoidLinear(z) == z

\* activation='sigmoid', in units of 1 / ScoreScale: monotone, 0 below
\* -2 * ScoreScale and ScoreScale above 2 * ScoreScale (float32 saturates to
\* exactly 0.0 and 1.0, as the notebook's own prediction 0.0 shows).
Sigmoid(z) ==
    IF z <= -2 * ScoreScale THEN 0
    ELSE IF z >= 2 * ScoreScale THEN ScoreScale
    ELSE (z + 2 * ScoreScale) \div 4

\* Sequential: Embedding, Flatten, Dense(32, relu), Dense(1, sigmoid), applied
\* to one sample (a row of maxlen token indices).
Predict(g, row) ==
    LET e == [i \in 1..Len(row) |-> Embedding(g, row[i])]
        h == ReLU(SumRange(e, 1, Len(row)) + 140)
    IN Sigmoid((h \div 8) - 12)

\* ------------------------------------------------------------ onnxruntime

\* The module global `model`: unbound until an init() assigns it, then an
\* InferenceSession over the graph of the artifact.
Unbound == [bound |-> FALSE, graph |-> 0]

Session(g) == [bound |-> TRUE, graph |-> g]

\* Row i of a rank 2 array.
RowOf(arr, i) == [j \in 1..arr.shape[2] |-> arr.data[(i - 1) * arr.shape[2] + j]]

\* model.run(None, {input_name: input_data}): the graph's input is
\* ['None', 100] (any number of rows of maxlen values); the token indices are
\* the Gather indices into the max_words rows of the embedding table. The
\* outputs: one array of shape (n, 1).
InferenceSession_run(sess, input_data) ==
    IF Len(input_data.shape) # 2
    THEN Raise("InvalidArgument", "Invalid rank for input", <<>>)
    ELSE IF input_data.shape[2] # maxlen
    THEN Raise("InvalidArgument", "Got invalid dimensions for input", <<>>)
    ELSE IF \E i \in 1..Len(input_data.data) : input_data.data[i] \notin 0..(max_words - 1)
    THEN Raise("InvalidArgument", "indices element out of data bounds", <<>>)
    ELSE Ok(<<NdArray(<<input_data.shape[1], 1>>,
                      [i \in 1..input_data.shape[1] |-> Predict(sess.graph, RowOf(input_data, i))])>>)

\* ------------------------------------------------------------ results

PyFloat(n) == [type |-> "float", num |-> n, text |-> ""]

PyStr(s) == [type |-> "str", num |-> 0, text |-> s]

NoneResult == [type |-> "none", num |-> 0, text |-> ""]

\* What Model.get_model_path and onnxruntime.InferenceSession find when init()
\* runs: the registry resolves the name or not; the file is missing, is no
\* loadable graph, or holds graph g.
LoadEnvs ==
    {[resolves |-> FALSE, file |-> "none", graph |-> 0],
     [resolves |-> TRUE, file |-> "missing", graph |-> 0],
     [resolves |-> TRUE, file |-> "corrupt", graph |-> 0]}
    \cup {[resolves |-> TRUE, file |-> "onnx", graph |-> g] : g \in 1..NumGraphs}

\* Model.get_model_path('component_compliance')
get_model_path(env) ==
    IF env.resolves THEN Ok("azureml-models/component_compliance")
    ELSE Raise("ModelNotFound", "Model component_compliance not found", "")

\* onnxruntime.InferenceSession(model_file_path)
InferenceSession(env) ==
    CASE env.file = "missing" -> Raise("NoSuchFile", "Load model failed. File doesn't exist", Unbound)
      [] env.file = "corrupt" -> Raise("InvalidProtobuf", "Load model failed. Protobuf parsing failed.", Unbound)
      [] OTHER -> Ok(Session(env.graph))

\* ------------------------------------------------------------ scoring_service.py

\* What a call of init() or run() leaves: the module global, what the call
\* returned (or the exception that left it), the line it printed last, and
\* whether it called model.run.
Returned(mdl, v, line, executed) ==
    [model |-> mdl, raised |-> FALSE, exc |-> NoExc, ret |-> v, printed |-> line,
     executed |-> executed]

Propagated(mdl, e, line, executed) ==
    [model |-> mdl, raised |-> TRUE, exc |-> e, ret |-> NoneResult, printed |-> line,
     executed |-> executed]

\* The try block of init(): the statements in order, the first exception ending
\* it. Its value is what the last statement assigns to the global.
init_body(env) == Then(get_model_path(env), LAMBDA model_path : InferenceSession(env))

\* init() with no except clause: the exception leaves init().
init_propagates(mdl, body) ==
    IF body.ok THEN Returned(body.value, NoneResult, "Model loaded...", FALSE)
    ELSE Propagated(mdl, body.exc, "Loading model from: ", FALSE)

\* init() whose except clause also drops the global.
init_unbinds(mdl, body) ==
    IF body.ok THEN Returned(body.value, NoneResult, "Model loaded...", FALSE)
    ELSE Returned(Unbound, NoneResult, body.exc.msg, FALSE)

\* init() around its try block: the global is assigned only when
\* InferenceSession returned; except Exception prints the exception, and
\* init() returns None either way.
init_except(mdl, body) ==
    IF body.ok THEN Returned(body.value, NoneResult, "Model loaded...", FALSE)
    ELSE IF body.exc.cls \in ExceptionClasses THEN Returned(mdl, NoneResult, body.exc.msg, FALSE)
    ELSE Propagated(mdl, body.exc, "Loading model from: ", FALSE)

\* def init() with no except clause.
init_no_except(mdl, env) == init_propagates(mdl, init_body(env))

\* def init() whose except clause also drops the global.
init_reset(mdl, env) == init_unbinds(mdl, init_body(env))

\* def init()
init(mdl, env) == init_except(mdl, init_body(env))

\* input_data = np.array(json.loads(raw_data)).astype(np.float32)
decode(raw_data) == Then(Then(json_loads(raw_data), np_array), astype_float32)

\* result[0][0].item()
item(result) ==
    IF result.shape[1] = 0
    THEN Raise("IndexError", "index 0 is out of bounds for axis 0 with size 0", NoneResult)
    ELSE Ok(PyFloat(result.data[1]))

\* The same of the last sample.
last_item(result) ==
    IF result.shape[1] = 0
    THEN Raise("IndexError", "index 0 is out of bounds for axis 0 with size 0", NoneResult)
    ELSE Ok(PyFloat(result.data[result.shape[1]]))

\* The first of the outputs of model.run.
first_output(outputs) == Ok(outputs[1])

\* result = model.run(None, {model.get_inputs()[0].name: input_data})[0]
\* with sess the global `model`: unbound, its name is a NameError.
model_run(sess, input_data) ==
    IF ~sess.bound THEN Raise("NameError", "name 'model' is not defined", NoArray)
    ELSE Then(InferenceSession_run(sess, input_data), first_output)

\* The two statements with the item of the last sample.
execute_last_row(sess, input_data) == Then(model_run(sess, input_data), last_item)

\* result = model.run(None, {model.get_inputs()[0].name: input_data})[0]
\* result = result[0][0].item()
execute(sess, input_data) == Then(model_run(sess, input_data), item)

\* The try block of run(): the statements in order, the first exception ending it.
run_body(mdl, raw_data) == Then(decode(raw_data), LAMBDA input_data : execute(mdl, input_data))

\* Whether the try block of run() reaches the call of model.run.
calls_model_run(mdl, raw_data) == mdl.bound /\ decode(raw_data).ok

\* run() around its try block: the value of the block, or str(e) of the
\* exception `except Exception` caught. run() declares no global: `model` is
\* only read.
run_except(mdl, body, executed) ==
    IF body.ok THEN Returned(mdl, body.value, "Received input: ", executed)
    ELSE IF body.exc.cls \in ExceptionClasses
    THEN Returned(mdl, PyStr(body.exc.msg), "Received input: ", executed)
    ELSE Propagated(mdl, body.exc, "Received input: ", executed)

\* run() with `except ValueError`: other exceptions leave run().
run_except_ValueError(mdl, body, executed) ==
    IF body.ok THEN Returned(mdl, body.value, "Received input: ", executed)
    ELSE IF body.exc.cls \in {"ValueError", "JSONDecodeError"}
    THEN Returned(mdl, PyStr(body.exc.msg), "Received input: ", executed)
    ELSE Propagated(mdl, body.exc, "Received input: ", executed)

\* run() whose except clause returns the number 0.
run_except_code(mdl, body, executed) ==
    IF body.ok THEN Returned(mdl, body.value, "Received input: ", executed)
    ELSE Returned(mdl, PyFloat(0), "Received input: ", executed)

\* run() that rebinds the global to another session after a score.
run_except_reload(mdl, body, executed) ==
    IF body.ok THEN Returned(Session((mdl.graph % NumGraphs) + 1), body.value, "Received input: ", executed)
    ELSE Returned(mdl, PyStr(body.exc.msg), "Received input: ", executed)

\* def run(raw_data) with `except ValueError`.
run_catches_value_error(mdl, raw_data) ==
    run_except_ValueError(mdl, run_body(mdl, raw_data), calls_model_run(mdl, raw_data))

\* def run(raw_data) that loads the model itself when the global is unbound.
run_lazy_load(mdl, raw_data) ==
    IF ~mdl.bound
    THEN run_except(Session(1), run_body(Session(1), raw_data), calls_model_run(Session(1), raw_data))
    ELSE run_except(mdl, run_body(mdl, raw_data), calls_model_run(mdl, raw_data))

\* def run(raw_data) that returns the number 0 for an error.
run_error_code(mdl, raw_data) ==
    run_except_code(mdl, run_body(mdl, raw_data), calls_model_run(mdl, raw_data))

\* def run(raw_data) that returns the item of the last sample.
run_last_row(mdl, raw_data) ==
    run_except(mdl, Then(decode(raw_data), LAMBDA input_data : execute_last_row(mdl, input_data)),
               calls_model_run(mdl, raw_data))

\* def run(raw_data) that rebinds the global after a score.
run_updates_graph(mdl, raw_data) ==
    run_except_reload(mdl, run_body(mdl, raw_data), calls_model_run(mdl, raw_data))

\* def run(raw_data)
run(mdl, raw_data) == run_except(mdl, run_body(mdl, raw_data), calls_model_run(mdl, raw_data))

\* ------------------------------------------------------------ request bodies

\* A row of len copies of one element.
ConstRow(len, tok) == [i \in 1..len |-> tok]

\* A row of maxlen token indices 1, 2, ..., k - 1, 0, 1, ...
CycleRow(k) == [i \in 1..maxlen |-> Num(i % k)]

\* Samples as the tokenizer and pad_sequences produce them: maxlen token
\* indices in 0..max_words - 1 (0 is the padding).
ValidRows == {ConstRow(maxlen, Num(0)), CycleRow(3), ConstRow(maxlen, Num(max_words - 1))}

\* The rows the generated batches of several samples are made of.
BatchRows == {ConstRow(maxlen, Num(0)), CycleRow(3)}

\* The lists of 2..MaxSamples rows drawn from rows.
Batches(rows) == UNION {[1..n -> rows] : n \in 2..MaxSamples}

\* Requests as the data preparation makes them: one sample, or several.
ValidRequests == {<<r>> : r \in ValidRows} \cup Batches(BatchRows)

\* Bodies that decode into a float array of shape (n, maxlen) of valid token indices.
ValidPayloads == {json_dumps(b) : b \in ValidRequests}

\* The bodies the notebook's tests send: one sample, reshaped to (1, maxlen).
SingleSamplePayloads == {json_dumps(<<r>>) : r \in ValidRows}

\* Bodies that are no JSON text: nothing, text that is no token, a body cut
\* short, a body followed by more text.
NotJSONPayloads ==
    {<<>>, <<Junk>>}
    \cup {SubSeq(p, 1, Len(p) - 1) : p \in SingleSamplePayloads}
    \cup {p \o <<RB>> : p \in SingleSamplePayloads}

\* Bodies whose vectors do not all have maxlen elements.
WrongLengthPayloads ==
    {json_dumps(<<ConstRow(maxlen \div 2, Num(1))>>),
     json_dumps(<<ConstRow(maxlen + 1, Num(1))>>),
     json_dumps(<<ConstRow(0, Num(1))>>),
     json_dumps(<<ConstRow(maxlen \div 2, Num(1)), ConstRow(maxlen \div 2, Num(2))>>)}

\* Bodies whose vectors differ in length: no rectangular array.
RaggedPayloads == {json_dumps(<<CycleRow(3), ConstRow(maxlen \div 2, Num(1))>>)}

\* Bodies that are JSON but no array of arrays: a number, a flat vector, an
\* empty array, a vector nested one level too deep.
WrongRankPayloads ==
    {<<Num(5)>>, DumpRow(CycleRow(3)), <<LB, RB>>, <<LB>> \o json_dumps(<<CycleRow(3)>>) \o <<RB>>}

\* Bodies with content that is no number and spells none.
NonNumericPayloads ==
    {<<Str>>,
     json_dumps(<<[CycleRow(3) EXCEPT ![maxlen] = Str]>>),
     json_dumps(<<ConstRow(maxlen, Null)>>)}

\* Bodies of the right shape holding a token index outside the vocabulary.
OutOfVocabularyPayloads ==
    {json_dumps(<<[CycleRow(3) EXCEPT ![1] = Num(max_words)]>>),
     json_dumps(<<[CycleRow(3) EXCEPT ![maxlen] = Num(-1)]>>)}

\* Bodies of the right shape whose values are strings that spell token indices.
NumericStringPayloads == {json_dumps(<<[i \in 1..maxlen |-> NumStr(i % 3)]>>)}

\* Bodies that json.loads, np.array or the float32 cast rejects.
UndecodablePayloads == NotJSONPayloads \cup RaggedPayloads \cup NonNumericPayloads

\* Bodies that are not a JSON array of arrays of maxlen numbers each.
MalformedPayloads == UndecodablePayloads \cup WrongLengthPayloads \cup WrongRankPayloads

Payloads == ValidPayloads \cup MalformedPayloads \cup OutOfVocabularyPayloads \cup NumericStringPayloads

\* ------------------------------------------------------------ the endpoint

\* The values the module global takes.
Models == {Unbound} \cup {Session(g) : g \in 1..NumGraphs}

\* run on every global and every body, each evaluated once (@@ <<>> leaves a
\* function as it is).
RunTable == [c \in Models \X Payloads |-> run(c[1], c[2])] @@ <<>>

VARIABLES
    model,   \* the module global of scoring_service.py
    last,    \* the latest call of init() or run(): its argument and what it left
    loads,   \* whether an init() has succeeded, and whether one has failed, so far
    watch,   \* one body, and the results run() gave for it since the global was last assigned
    frames,  \* the calls of run() in progress: each caller's position and locals
    scored,  \* the notebook: the component description classified last, and its score
    kernel,  \* the notebook: the workspace's services and images, the globals image and webservice
    split,   \* the notebook: the data set as loaded, its shuffle and its three parts
    loader   \* the call of init() in progress: its position and locals

\* The state of the notebook's kernel.
notebook == <<scored, kernel, split>>

vars == <<model, last, loads, watch, frames, notebook, loader>>

NoEnv == [resolves |-> FALSE, file |-> "", graph |-> 0]

\* The record of a call: the operation, its argument (the body of a run(), what
\* an init() found), the global before the call, and what the call left.
Call(op, raw, env, pre, left) ==
    [op |-> op, raw |-> raw, env |-> env, pre |-> pre, raised |-> left.raised,
     exc |-> left.exc, ret |-> left.ret, printed |-> left.printed, executed |-> left.executed]

\* The callers the host serves at a time.
Callers == 1..NumCallers

\* The locals of a call of run() and the statement it is at: no call ("idle"),
\* before the decoding, the call of model.run, after the global was read for
\* it ("loaded", sess the session read), the extraction of the item, the return
\* statement, or returned ("done").
IdleFrame == [pc |-> "idle", raw_data |-> <<>>, input_data |-> NoArray, sess |-> Unbound,
              result |-> NoArray, ret |-> NoneResult]

\* The locals of a call of init() and the statement it is at: no call ("idle"),
\* before get_model_path, before the InferenceSession object is created, while
\* its constructor loads the file ("load"), before the assignment to the global
\* ("assign"), or returned ("done"); calls counts the calls so far.
IdleLoader == [pc |-> "idle", env |-> NoEnv, session |-> Unbound, printed |-> "", calls |-> 0]

\* webservice = None
NoService == [some |-> FALSE, name |-> "", image |-> 0, state |-> ""]

\* A web service of the workspace: its name, the version of the image it was
\* deployed from, its state.
Service(name, image, state) == [some |-> TRUE, name |-> name, image |-> image, state |-> state]

\* A kernel in which no cell has run: the services ws and the latest image
\* version images of the workspace; the global image undefined (0), webservice
\* None. Of the latest run of the deployment cell: whether a service named
\* webservice_name was listed when it began (listed), whether it called
\* deploy_from_image (started), whether it ran to its end (completed). created counts the services named webservice_name that
\* deploy_from_image has created.
NewKernel(ws, images) ==
    [ws |-> ws, images |-> images, image |-> 0, webservice |-> NoService, ran |-> FALSE,
     listed |-> FALSE, started |-> FALSE, completed |-> FALSE, created |-> 0]

\* No data set loaded yet. Of a loaded one: the texts and labels as read
\* (components, labels0), the shuffled index array, the sizes asked for, data
\* and labels after the shuffle, and the three parts of each.
NoData ==
    [loaded |-> FALSE, done |-> FALSE, components |-> <<>>, labels0 |-> <<>>, indices |-> <<>>,
     training_samples |-> 0, validation_samples |-> 0, data |-> <<>>, labels |-> <<>>,
     x_train |-> <<>>, y_train |-> <<>>, x_val |-> <<>>, y_val |-> <<>>,
     x_test |-> <<>>, y_test |-> <<>>]

\* Nothing classified yet.
NoScore == [on |-> FALSE, component |-> [year |-> 0, condition |-> "", material |-> ""], score |-> 0]

NoWatch == [on |-> FALSE, raw |-> <<>>, results |-> {}, calls |-> 0, others |-> FALSE]

\* The watch after run() returned ret for raw_data: a body not yet chosen may be
\* chosen now; the results of the chosen body are collected, the calls counted
\* up to two.
Watched(w, raw_data, ret) ==
    IF ~w.on THEN {w, [on |-> TRUE, raw |-> raw_data, results |-> {ret}, calls |-> 1, others |-> FALSE]}
    ELSE IF w.raw = raw_data
    THEN {[w EXCEPT !.results = @ \cup {ret}, !.calls = IF @ < 2 THEN @ + 1 ELSE @]}
    ELSE {[w EXCEPT !.others = TRUE]}

\* A freshly imported scoring_service module: no global `model`, nothing called.
Init ==
    /\ model = Unbound
    /\ last = [op |-> "none", raw |-> <<>>, env |-> NoEnv, pre |-> Unbound, raised |-> FALSE,
               exc |-> NoExc, ret |-> NoneResult, printed |-> "", executed |-> FALSE]
    /\ loads = [succeeded |-> FALSE, failed |-> FALSE]
    /\ watch = NoWatch
    /\ frames = [c \in Callers |-> IdleFrame]
    /\ scored = NoScore
    /\ kernel = NewKernel({}, 1)
    /\ loader = IdleLoader
    /\ split = NoData

\* The host calls init().
CallInit ==
    \E env \in LoadEnvs :
        LET left == init(model, env) IN
        /\ model' = left.model
        /\ last' = Call("init", <<>>, env, model, left)
        /\ loads' = IF left.printed = "Model loaded..."
                    THEN [loads EXCEPT !.succeeded = TRUE]
                    ELSE [loads EXCEPT !.failed = TRUE]
        /\ UNCHANGED <<watch, frames, notebook, loader>>

\* The host calls run(raw_data) with a request body.
CallRun ==
    \E raw_data \in Payloads :
        LET left == RunTable[<<model, raw_data>>] IN
        /\ model' = left.model
        /\ last' = Call("run", raw_data, NoEnv, model, left)
        /\ UNCHANGED <<loads, watch, frames, notebook, loader>>

Next == CallInit \/ CallRun

Spec == Init /\ [][Next]_vars

\* The same two calls, observed through watch instead of last: init(), after
\* which the results collected under another global are dropped,
WatchInit ==
    \E env \in LoadEnvs :
        LET left == init(model, env) IN
        /\ model' = left.model
        /\ watch' = IF left.model = model THEN watch ELSE NoWatch
        /\ UNCHANGED <<last, loads, frames, notebook, loader>>

\* and run(raw_data).
WatchRun ==
    \E raw_data \in Payloads :
        LET left == RunTable[<<model, raw_data>>] IN
        /\ model' = left.model
        /\ watch' \in Watched(watch, raw_data, left.ret)
        /\ UNCHANGED <<last, loads, frames, notebook, loader>>

NextWatch == WatchInit \/ WatchRun

SpecWatch == Init /\ [][NextWatch]_vars

\* ------------------------------------------------------------ concurrent callers

\* The bodies concurrent callers send: one sample, two samples, a vector of
\* maxlen \div 2 values, text that is no JSON.
ConcPayloads ==
    {json_dumps(<<CycleRow(3)>>),
     json_dumps(<<ConstRow(maxlen, Num(0)), CycleRow(3)>>),
     json_dumps(<<ConstRow(maxlen \div 2, Num(1))>>),
     <<Junk>>}

\* def run(raw_data): a call starts with its own locals.
run_enter(f, c, raw_data) == [f EXCEPT ![c] = [IdleFrame EXCEPT !.pc = "decode", !.raw_data = raw_data]]

\* except Exception as e: error = str(e), and on to `return error`.
run_raise(frame, exc) ==
    IF exc.cls \in ExceptionClasses THEN [frame EXCEPT !.pc = "return", !.ret = PyStr(exc.msg)]
    ELSE [frame EXCEPT !.pc = "raised"]

\* input_data = ...: the local is assigned, or the exception raised.
run_assign_input(frame, outcome) ==
    IF outcome.ok THEN [frame EXCEPT !.pc = "model.run", !.input_data = outcome.value]
    ELSE run_raise(frame, outcome.exc)

\* input_data a module global instead of a local: every call in progress sees
\* the latest assignment.
run_decode_global(f, c) ==
    [d \in DOMAIN f |->
        IF d = c THEN run_assign_input(f[c], decode(f[c].raw_data))
        ELSE IF decode(f[c].raw_data).ok THEN [f[d] EXCEPT !.input_data = decode(f[c].raw_data).value]
        ELSE f[d]]

\* input_data = np.array(json.loads(raw_data)).astype(np.float32)
run_decode(f, c) == [f EXCEPT ![c] = run_assign_input(f[c], decode(f[c].raw_data))]

\* result = ...[0]: the local is assigned, or the exception raised.
run_assign_result(frame, outcome) ==
    IF outcome.ok THEN [frame EXCEPT !.pc = "item", !.result = outcome.value]
    ELSE run_raise(frame, outcome.exc)

\* result = model.run(None, {model.get_inputs()[0].name: input_data})[0],
\* with mdl the global `model` as the call reads it.
run_model_run(f, c, mdl) == [f EXCEPT ![c] = run_assign_result(f[c], model_run(mdl, f[c].input_data))]

\* result = ...item(): the local is assigned, or the exception raised.
run_assign_item(frame, outcome) ==
    IF outcome.ok THEN [frame EXCEPT !.pc = "return", !.ret = outcome.value]
    ELSE run_raise(frame, outcome.exc)

\* result = result[0][0].item()
run_item(f, c) == [f EXCEPT ![c] = run_assign_item(f[c], item(f[c].result))]

\* return result, or return error
run_return(f, c) == [f EXCEPT ![c].pc = "done"]

\* The host starts: it imports the module and calls init() once, before it
\* serves any request.
Startup ==
    /\ ~loads.succeeded
    /\ ~loads.failed
    /\ \E env \in LoadEnvs :
        LET left == init(model, env) IN
        /\ model' = left.model
        /\ loads' = IF left.printed = "Model loaded..."
                    THEN [loads EXCEPT !.succeeded = TRUE]
                    ELSE [loads EXCEPT !.failed = TRUE]
    /\ UNCHANGED <<last, watch, frames, notebook, loader>>

\* The host calls run(raw_data) for caller c, whatever the other callers' calls are at.
Receive(c) ==
    /\ loads.succeeded \/ loads.failed
    /\ frames[c].pc = "idle"
    /\ \E raw_data \in ConcPayloads : frames' = run_enter(frames, c, raw_data)
    /\ UNCHANGED <<model, last, loads, watch, notebook, loader>>

Decode(c) ==
    /\ frames[c].pc = "decode"
    /\ frames' = run_decode(frames, c)
    /\ UNCHANGED <<model, last, loads, watch, notebook, loader>>

ModelRun(c) ==
    /\ frames[c].pc = "model.run"
    /\ frames' = run_model_run(frames, c, model)
    /\ UNCHANGED <<model, last, loads, watch, notebook, loader>>

Item(c) ==
    /\ frames[c].pc = "item"
    /\ frames' = run_item(frames, c)
    /\ UNCHANGED <<model, last, loads, watch, notebook, loader>>

Return(c) ==
    /\ frames[c].pc = "return"
    /\ frames' = run_return(frames, c)
    /\ UNCHANGED <<model, last, loads, watch, notebook, loader>>

\* The host sends caller c the value run() returned.
Respond(c) ==
    /\ frames[c].pc = "done"
    /\ frames' = [frames EXCEPT ![c] = IdleFrame]
    /\ UNCHANGED <<model, last, loads, watch, notebook, loader>>

NextConc ==
    \/ Startup
    \/ \E c \in Callers : Receive(c)
    \/ \E c \in Callers : Decode(c)
    \/ \E c \in Callers : ModelRun(c)
    \/ \E c \in Callers : Item(c)
    \/ \E c \in Callers : Return(c)
    \/ \E c \in Callers : Respond(c)

SpecConc == Init /\ [][NextConc]_vars

\* ------------------------------------------------------------ init() beside run()

\* An InferenceSession object whose constructor has not loaded the graph yet.
Partial == [bound |-> TRUE, graph |-> 0]

\* The callers the host serves while it calls init().
EarlyCallers == 1..NumEarlyCallers

\* The bodies sent while init() runs: one sample, and text that is no JSON.
LoadPayloads == {json_dumps(<<CycleRow(3)>>), <<Junk>>}

\* def init(): a call starts.
init_enter(ld, env) ==
    [IdleLoader EXCEPT !.pc = "get_model_path", !.env = env, !.calls = ld.calls + 1]

\* except Exception as e: print(e), and init() returns.
init_raise(ld, exc) ==
    IF exc.cls \in ExceptionClasses
    THEN [ld EXCEPT !.pc = "done", !.session = Unbound, !.printed = exc.msg]
    ELSE [ld EXCEPT !.pc = "raised"]

\* model_path = ...: the local is assigned, or the exception raised.
init_assign_path(ld, outcome) ==
    IF outcome.ok THEN [ld EXCEPT !.pc = "InferenceSession", !.printed = "Loading model from: "]
    ELSE init_raise(ld, outcome.exc)

\* model_path = Model.get_model_path('component_compliance') and the two
\* statements after it.
init_get_model_path(ld) == init_assign_path(ld, get_model_path(ld.env))

\* onnxruntime.InferenceSession(model_file_path): the object is created,
init_create(ld) == [ld EXCEPT !.pc = "load", !.session = Partial]

\* The constructor returns the session, or raises.
init_loaded(ld, outcome) ==
    IF outcome.ok THEN [ld EXCEPT !.pc = "assign", !.session = outcome.value]
    ELSE init_raise(ld, outcome.exc)

\* and its constructor loads the graph from the file.
init_load(ld) == init_loaded(ld, InferenceSession(ld.env))

\* model = ...: the global is assigned, and print('Model loaded...').
init_assign(ld) == [ld EXCEPT !.pc = "done", !.printed = "Model loaded..."]

\* The global bound to the object as soon as it is created.
init_global_early(ld, mdl) == IF ld.pc \in {"load", "assign"} THEN ld.session ELSE mdl

\* The global `model` after the statement init() is at: only the assignment,
\* which follows the constructor's return, binds it.
init_global(ld, mdl) == IF ld.pc = "assign" THEN ld.session ELSE mdl

\* The name `model` is looked up for model.run: the session the call will
\* run, or a NameError. (The second lookup, for model.get_inputs, finds a
\* session too: the global is never unbound again.)
run_load_global(f, c, mdl) ==
    IF mdl.bound THEN [f EXCEPT ![c].pc = "loaded", ![c].sess = mdl]
    ELSE [f EXCEPT ![c] = run_raise(f[c], Exc("NameError", "name 'model' is not defined"))]

\* The host calls init(), also while calls of run() are in progress.
InitEnter ==
    /\ loader.pc \in {"idle", "done"}
    /\ loader.calls < MaxInits
    /\ \E env \in LoadEnvs : loader' = init_enter(loader, env)
    /\ UNCHANGED <<model, last, loads, watch, frames, notebook>>

InitGetModelPath ==
    /\ loader.pc = "get_model_path"
    /\ loader' = init_get_model_path(loader)
    /\ UNCHANGED <<model, last, loads, watch, frames, notebook>>

InitCreate ==
    /\ loader.pc = "InferenceSession"
    /\ loader' = init_create(loader)
    /\ model' = init_global(loader, model)
    /\ UNCHANGED <<last, loads, watch, frames, notebook>>

InitLoad ==
    /\ loader.pc = "load"
    /\ loader' = init_load(loader)
    /\ model' = init_global(loader, model)
    /\ UNCHANGED <<last, loads, watch, frames, notebook>>

InitAssign ==
    /\ loader.pc = "assign"
    /\ loader' = init_assign(loader)
    /\ model' = init_global(loader, model)
    /\ UNCHANGED <<last, loads, watch, frames, notebook>>

\* The host calls run(raw_data) for caller c, whatever init() is at.
ReceiveEarly(c) ==
    /\ frames[c].pc = "idle"
    /\ \E raw_data \in LoadPayloads : frames' = run_enter(frames, c, raw_data)
    /\ UNCHANGED <<model, last, loads, watch, notebook, loader>>

LoadGlobal(c) ==
    /\ frames[c].pc = "model.run"
    /\ frames' = run_load_global(frames, c, model)
    /\ UNCHANGED <<model, last, loads, watch, notebook, loader>>

RunLoaded(c) ==
    /\ frames[c].pc = "loaded"
    /\ frames' = run_model_run(frames, c, frames[c].sess)
    /\ UNCHANGED <<model, last, loads, watch, notebook, loader>>

NextLoad ==
    \/ InitEnter
    \/ InitGetModelPath
    \/ InitCreate
    \/ InitLoad
    \/ InitAssign
    \/ \E c \in EarlyCallers : ReceiveEarly(c)
    \/ \E c \in EarlyCallers : Decode(c)
    \/ \E c \in EarlyCallers : LoadGlobal(c)
    \/ \E c \in EarlyCallers : RunLoaded(c)
    \/ \E c \in EarlyCallers : Item(c)
    \/ \E c \in EarlyCallers : Return(c)
    \/ \E c \in EarlyCallers : Respond(c)

SpecLoad == Init /\ [][NextLoad]_vars

\* ------------------------------------------------------------ the data set

\* Manufacture year, condition and materials of the described components.
Years == {1985, 1994, 1995, 2010}

Conditions == {"poor", "fair", "good", "new"}

Materials == {"plastic", "carbon fiber", "steel", "iron"}

Components == [year : Years, condition : Conditions, material : Materials]

\* Any component manufactured before 1995 or in fair or poor condition or made
\* with plastic or iron is out of compliance.
OutOfCompliance(c) ==
    \/ c.year < 1995
    \/ c.condition \in {"fair", "poor"}
    \/ c.material \in {"plastic", "iron"}

\* The labels present in this data are 0 for compliant, 1 for non-compliant.
label(c) == IF OutOfCompliance(c) THEN 1 ELSE 0

\* The scores a model fitted to the labels gives a description: the sigmoid
\* output, within FitTolerance of the label.
FittedScores(c) ==
    {s \in 0..ScoreScale : s - label(c) * ScoreScale \in (-FitTolerance)..FitTolerance}

\* A description of the data set is classified by the fitted model.
Classify ==
    /\ \E c \in Components :
        \E s \in FittedScores(c) : scored' = [on |-> TRUE, component |-> c, score |-> s]
    /\ UNCHANGED <<model, last, loads, watch, frames, kernel, split, loader>>

NextClassify == Classify

SpecClassify == Init /\ [][NextClassify]_vars

\* ------------------------------------------------------------ packaging and deployment

\* webservice_name = 'complianceservice-srv'
webservice_name == "complianceservice-srv"

\* What the deployment finds: the container starts, the container fails to
\* start (wait_for_deployment raises), or the deployment is refused
\* (deploy_from_image raises).
DeployOutcomes == {"Healthy", "Failed", "Refused"}

\* The workspaces the notebook is run in: a new one, and ones that earlier
\* work left a service in.
InitialWorkspaces ==
    {{},
     {Service("other-srv", 1, "Healthy")},
     {Service(webservice_name, 1, "Healthy")},
     {Service(webservice_name, 1, "Failed")},
     {Service("other-srv", 1, "Healthy"), Service(webservice_name, 1, "Healthy")}}

\* Webservice.list(ws)
Webservice_list(ws) == ws

\* The loop with no match ever.
find_service_never(services) == NoService

\* for service in Webservice.list(ws): if (service.name == webservice_name): webservice = service
\* (names are unique in a workspace).
find_service(services) ==
    IF \E service \in services : service.name = webservice_name
    THEN CHOOSE service \in services : service.name = webservice_name
    ELSE NoService

\* image = Image.create(name=image_name, models=[registered_model], ...);
\* image.wait_for_creation(): the next version of the image.
packaging_cell(k) == [k EXCEPT !.images = @ + 1, !.image = k.images + 1]

\* Webservice.deploy_from_image(image=image, name=webservice_name, ...) and
\* webservice.wait_for_deployment(): the workspace and the service object
\* after them, and whether one of them raised. A name in use is refused.
deploy_from_image(ws, image, name, outcome) ==
    IF outcome = "Refused" \/ \E service \in ws : service.name = name
    THEN [ws |-> ws, webservice |-> NoService, raised |-> TRUE, created |-> 0]
    ELSE [ws |-> ws \cup {Service(name, image, outcome)},
          webservice |-> Service(name, image, outcome),
          raised |-> outcome # "Healthy", created |-> 1]

\* if webservice == None: ... deploy; print(webservice.name, webservice)
deploy_if_none(k, found, deployed) ==
    IF found.some
    THEN [k EXCEPT !.webservice = found, !.ran = TRUE, !.started = FALSE, !.completed = TRUE]
    ELSE [k EXCEPT !.ws = deployed.ws, !.webservice = deployed.webservice, !.ran = TRUE,
                   !.started = TRUE, !.completed = ~deployed.raised,
                   !.created = @ + deployed.created]

\* The deployment cell.
deployment_cell(k, outcome) ==
    deploy_if_none(k, find_service(Webservice_list(k.ws)),
                   deploy_from_image(k.ws, k.image, webservice_name, outcome))

\* The notebook is opened on a workspace.
InitDeploy ==
    /\ model = Unbound
    /\ last = [op |-> "none", raw |-> <<>>, env |-> NoEnv, pre |-> Unbound, raised |-> FALSE,
               exc |-> NoExc, ret |-> NoneResult, printed |-> "", executed |-> FALSE]
    /\ loads = [succeeded |-> FALSE, failed |-> FALSE]
    /\ watch = NoWatch
    /\ frames = [c \in Callers |-> IdleFrame]
    /\ scored = NoScore
    /\ \E ws \in InitialWorkspaces : kernel = NewKernel(ws, 1)
    /\ loader = IdleLoader
    /\ split = NoData

\* The kernel is restarted for another run of the notebook.
RestartKernel ==
    /\ kernel.ran
    /\ kernel' = [NewKernel(kernel.ws, kernel.images) EXCEPT !.created = kernel.created]
    /\ UNCHANGED <<model, last, loads, watch, frames, scored, split, loader>>

\* The packaging cell runs.
PackagingCell ==
    /\ kernel.images < MaxImages
    /\ kernel' = packaging_cell(kernel)
    /\ UNCHANGED <<model, last, loads, watch, frames, scored, split, loader>>

\* The deployment cell runs, after the packaging cell has defined image.
DeploymentCell ==
    /\ kernel.image > 0
    /\ \E outcome \in DeployOutcomes :
        kernel' = [deployment_cell(kernel, outcome) EXCEPT
                      !.listed = \E service \in kernel.ws : service.name = webservice_name]
    /\ UNCHANGED <<model, last, loads, watch, frames, scored, split, loader>>

NextDeploy == RestartKernel \/ PackagingCell \/ DeploymentCell

SpecDeploy == InitDeploy /\ [][NextDeploy]_vars

\* ------------------------------------------------------------ shuffle and split

\* The texts of the rows (rows may repeat a text) and their labels.
Texts == {"a", "b"}

\* np.arange(n)
arange(n) == [i \in 1..n |-> i - 1]

\* np.random.shuffle(indices): the orders the n indices may be left in.
Shuffles(n) == {p \in [1..n -> 0..(n - 1)] : \A i, j \in 1..n : p[i] = p[j] => i = j}

\* a[indices]: the rows of a at the given (0-based) indices.
TakeRows(a, indices) == [i \in 1..Len(indices) |-> a[indices[i] + 1]]

Min(a, b) == IF a < b THEN a ELSE b

\* a[lo:hi] for 0 <= lo, hi: the rows lo .. hi - 1 that a has.
SliceRows(a, lo, hi) == SubSeq(a, Min(lo, Len(a)) + 1, Min(hi, Len(a)))

\* The three parts of the shuffled data and labels: a[:t], a[t: t + v], a[t + v:].
split_rows(sp, data, labels) ==
    [sp EXCEPT !.done = TRUE, !.data = data, !.labels = labels,
               !.x_train = SliceRows(data, 0, sp.training_samples),
               !.y_train = SliceRows(labels, 0, sp.training_samples),
               !.x_val = SliceRows(data, sp.training_samples, sp.training_samples + sp.validation_samples),
               !.y_val = SliceRows(labels, sp.training_samples, sp.training_samples + sp.validation_samples),
               !.x_test = SliceRows(data, sp.training_samples + sp.validation_samples, Len(data)),
               !.y_test = SliceRows(labels, sp.training_samples + sp.validation_samples, Len(labels))]

\* The split after a shuffle of the data alone.
shuffle_split_data_only(sp) == split_rows(sp, TakeRows(sp.components, sp.indices), sp.labels0)

\* data = data[indices]; labels = labels[indices]; x_train = ... y_test = ...
shuffle_split(sp) ==
    split_rows(sp, TakeRows(sp.components, sp.indices), TakeRows(sp.labels0, sp.indices))

\* The data set is read: components and labels, a row each.
LoadData ==
    /\ ~split.loaded
    /\ \E n \in 0..MaxRows :
        \E components \in [1..n -> Texts], labels \in [1..n -> {0, 1}] :
            split' = [NoData EXCEPT !.loaded = TRUE, !.components = components, !.labels0 = labels]
    /\ UNCHANGED <<model, last, loads, watch, frames, scored, kernel, loader>>

\* The cell that tokenizes, shuffles and splits runs, with the sizes it sets.
SplitCell ==
    /\ split.loaded
    /\ ~split.done
    /\ \E indices \in Shuffles(Len(split.components)), t \in 0..MaxRows, v \in 0..MaxRows :
        split' = shuffle_split([split EXCEPT !.indices = indices, !.training_samples = t,
                                             !.validation_samples = v])
    /\ UNCHANGED <<model, last, loads, watch, frames, scored, kernel, loader>>

NextSplit == LoadData \/ SplitCell

SpecSplit == Init /\ [][NextSplit]_vars

\* ------------------------------------------------------------ properties

\* The token indices of a row of a request.
TokensOf(row) == [i \in 1..Len(row) |-> row[i].n]

\* The latest call was an init() whose try block raised.
InitFailed == last.op = "init" /\ ~init_body(last.env).ok

\* C1: for every request body and in either state of the endpoint, run()
\* returns normally and its result is a float or a string; no exception leaves
\* run().
C1_RunReturnsFloatOrString ==
    last.op = "run" => ~last.raised /\ last.exc = NoExc /\ last.ret.type \in {"float", "str"}

\* run() has caught an error of the runtime (a token index outside the
\* vocabulary) on a Ready endpoint and returned its text.
C1_Witness ==
    /\ last.op = "run"
    /\ last.pre.bound
    /\ last.raw \in OutOfVocabularyPayloads
    /\ last.executed
    /\ last.ret = PyStr("indices element out of data bounds")

\* C2: every run() on an Uninitialized endpoint returns the not-ready error
\* (the name `model` is not defined) and does not call model.run, for every
\* request body, a malformed one included.
C2_NotReadyForEveryRequest ==
    last.op = "run" /\ ~last.pre.bound =>
        last.ret = PyStr("name 'model' is not defined") /\ ~last.executed

\* C3: an init() whose loading fails catches the failure, prints it and
\* returns None, leaving the global as it was; an endpoint on which no init()
\* has succeeded has no session, and every run() on it returns an error string.
C3_FailedInitLeavesUninitialized ==
    /\ InitFailed =>
        /\ ~last.raised
        /\ last.ret = NoneResult
        /\ last.printed = init_body(last.env).exc.msg
        /\ model = last.pre
    /\ ~loads.succeeded => ~model.bound
    /\ last.op = "run" /\ loads.failed /\ ~loads.succeeded =>
        ~last.raised /\ last.ret.type = "str" /\ ~last.executed

\* After an init() that failed on a corrupt file, a run() with a valid body
\* has returned an error string.
C3_Witness ==
    /\ loads.failed
    /\ ~loads.succeeded
    /\ last.op = "run"
    /\ last.raw \in SingleSamplePayloads
    /\ last.ret.type = "str"

\* C4: the global is unbound or a session; it becomes bound exactly by an
\* init() that succeeds; a failed init() and a run() leave it as it is; once
\* bound it is never unbound again.
C4_OneWayTransition ==
    [][/\ model' \in Models
       /\ model.bound => model'.bound
       /\ ~model.bound /\ model'.bound => last'.op = "init" /\ init_body(last'.env).ok
       /\ last'.op = "init" /\ init_body(last'.env).ok => model'.bound
       /\ last'.op = "init" /\ ~init_body(last'.env).ok => model' = model
       /\ last'.op = "run" => model' = model]_vars

\* An init() has failed on a Ready endpoint, which is still Ready.
C4_Witness ==
    /\ InitFailed
    /\ last.pre.bound
    /\ model.bound

\* C5: run() leaves the global as it found it, whatever it returns; on an
\* Uninitialized endpoint it loads nothing.
C5_RunMutatesNothing ==
    last.op = "run" => model = last.pre /\ (~last.pre.bound => ~model.bound)

\* A run() on an Uninitialized endpoint has returned and the endpoint is
\* still Uninitialized, although an init() on it could succeed.
C5_Witness ==
    /\ last.op = "run"
    /\ ~last.pre.bound
    /\ ~model.bound
    /\ last.raw \in ValidPayloads
    /\ ~loads.failed

C7_SingleSampleInUnitInterval ==
    last.op = "run" /\ last.pre.bound /\ last.raw \in SingleSamplePayloads =>
        last.ret.type = "float" /\ last.ret.num \in 0..ScoreScale

\* One sample was scored strictly between 0.0 and 1.0.
C7_Witness ==
    /\ last.op = "run"
    /\ last.pre.bound
    /\ last.raw \in SingleSamplePayloads
    /\ last.ret.type = "float"
    /\ last.ret.num \in 1..(ScoreScale - 1)

\* C8: on a Ready endpoint a body of n >= 1 samples gives one float, the
\* prediction of the graph for the first sample, whatever samples 2..n are.
C8_FirstSampleOnly ==
    last.op = "run" /\ last.pre.bound /\ last.raw \in ValidPayloads =>
        \E rows \in ValidRequests :
            /\ last.raw = json_dumps(rows)
            /\ last.ret = PyFloat(Predict(last.pre.graph, TokensOf(rows[1])))

\* A body of two samples with different predictions was answered with the
\* prediction of the first.
C8_Witness ==
    /\ last.op = "run"
    /\ last.pre.bound
    /\ \E rows \in Batches(BatchRows) :
        /\ last.raw = json_dumps(rows)
        /\ Predict(last.pre.graph, TokensOf(rows[1])) # Predict(last.pre.graph, TokensOf(rows[Len(rows)]))
        /\ last.ret = PyFloat(Predict(last.pre.graph, TokensOf(rows[1])))

\* C9: on a Ready endpoint all calls of run() with one body give one result,
\* whatever other bodies are scored before or between them.
C9_Idempotent == model.bound => Cardinality(watch.results) <= 1

\* The watched body was scored twice on a Ready endpoint, another body
\* between, and got a float.
C9_Witness ==
    /\ model.bound
    /\ watch.calls = 2
    /\ watch.others
    /\ \E r \in watch.results : r.type = "float"

\* C10: on a Ready endpoint every call of run() that returns, whatever the
\* other callers' calls did meanwhile, returns what run() called alone on the
\* same global returns for the same body.
C10_ConcurrentAsSequential ==
    model.bound =>
        \A c \in Callers :
            frames[c].pc = "done" => frames[c].ret = RunTable[<<model, frames[c].raw_data>>].ret

\* A call has returned a float while another caller's call with another body,
\* already decoded, is still in progress.
C10_Witness ==
    /\ model.bound
    /\ \E c \in Callers, d \in Callers :
        /\ frames[c].pc = "done"
        /\ frames[c].ret.type = "float"
        /\ frames[d].pc \in {"model.run", "item"}
        /\ frames[d].raw_data # frames[c].raw_data

C12_ReturnsClassIndex ==
    last.op = "run" /\ last.ret.type = "float" => last.ret.num \in {0, ScoreScale}

\* C13: after the deployment cell completes, webservice is the service named
\* webservice_name and runs the image the packaging cell built in this run of
\* the notebook, whether or not a service of that name was listed before.
C13_DeploysThisRunsImage ==
    kernel.completed =>
        /\ kernel.webservice.some
        /\ kernel.webservice.name = webservice_name
        /\ kernel.webservice.state = "Healthy"
        /\ kernel.webservice.image = kernel.image

C15_NoPartialHandle ==
    /\ model \in Models
    /\ \A c \in Callers :
        /\ frames[c].sess \in Models
        /\ frames[c].pc = "loaded" => frames[c].sess.bound
        /\ frames[c].pc = "done" =>
            frames[c].ret = RunTable[<<frames[c].sess, frames[c].raw_data>>].ret

\* While init() holds the loaded session, not yet assigned to the global, a
\* call of run() with a valid body has found no global and returned the error.
C15_Witness ==
    /\ loader.pc = "assign"
    /\ ~model.bound
    /\ \E c \in Callers :
        /\ frames[c].pc = "done"
        /\ frames[c].raw_data = json_dumps(<<CycleRow(3)>>)
        /\ frames[c].ret = PyStr("name 'model' is not defined")

\* C16: the three parts are consecutive pieces of the shuffled data set that
\* together hold every row once: the first training_samples rows, the next
\* validation_samples rows, and every row after them; the labels are cut the
\* same way, and the shuffle moved every row together with its label.
C16_SplitPartitions ==
    split.done =>
        /\ split.x_train \o split.x_val \o split.x_test = split.data
        /\ split.y_train \o split.y_val \o split.y_test = split.labels
        /\ Len(split.x_train) = Len(split.y_train)
        /\ Len(split.x_val) = Len(split.y_val)
        /\ Len(split.x_test) = Len(split.y_test)
        /\ split.training_samples + split.validation_samples <= Len(split.data) =>
            /\ Len(split.x_train) = split.training_samples
            /\ Len(split.x_val) = split.validation_samples
        /\ Len(split.data) = Len(split.components)
        /\ \A r \in 1..Len(split.components) :
            Cardinality({i \in 1..Len(split.indices) : split.indices[i] = r - 1}) = 1
        /\ \A i \in 1..Len(split.data) :
            /\ split.data[i] = split.components[split.indices[i] + 1]
            /\ split.labels[i] = split.labels0[split.indices[i] + 1]

\* A data set of three rows with different labels was shuffled out of its
\* order and split into three parts of one row each.
C16_Witness ==
    /\ split.done
    /\ Len(split.x_train) = 1
    /\ Len(split.x_val) = 1
    /\ Len(split.x_test) = 1
    /\ split.indices # arange(Len(split.indices))
    /\ split.labels # split.labels0

====
